---- MODULE Spec2Model ----
(***************************************************************************)
(* A model of the ishod result library (src/src/result/impl.ts) together   *)
(* with the part of the host's promise machinery that the library drives   *)
(* (then / catch, reaction jobs, adoption of a returned promise).          *)
(*                                                                         *)
(* Values.  A JavaScript value is one of                                   *)
(*   [prim |-> n]            a primitive (0 is undefined, n > 0 a symbol,  *)
(*                           -1 the TypeError the host throws),            *)
(*   [ref |-> i]             a reference to the object heap[i],            *)
(*   [id |-> n, kind, value] a caller-supplied function,                   *)
(*   [closure |-> f, ...]    an arrow function built by the library.       *)
(* Objects live in the heap so that identity (===) is the equality of      *)
(* references, and the fields of an object are the fields of its record:   *)
(* "then" in value is "then" \in DOMAIN heap[i].                           *)
(***************************************************************************)
EXTENDS Integers, Sequences, FiniteSets, TLC

VARIABLES
    heap,    \* the objects allocated so far: results and promises
    jobs,    \* the host's microtask queue
    log,     \* every invocation of a caller-supplied function, in order, with how it ended
    made,    \* references the caller created itself (ok/err, its own promises)
    calls    \* the calls the caller made to the library, with what they gave

vars == <<heap, jobs, log, calls, made>>

\* Number of distinct primitive payloads (symbols) the caller draws from.
MaxPrim == 1
\* Number of results the caller builds with ok()/err() before calling.
MaxSrc == 1
\* Number of promises the caller creates before calling (its callbacks may create more).
MaxDeferred == 1
\* Number of calls the caller makes on one and the same result.
MaxSeq == 2
\* Number of combinators the caller chains on a deferred, each on what the one before returned.
MaxChain == 2

-----------------------------------------------------------------------------
(* Values *)

undefined == [prim |-> 0]
null == [prim |-> -2]
TypeError == [prim |-> -1]
Prim(n) == [prim |-> n]
Ref(i) == [ref |-> i]
Symbols == {Prim(n) : n \in 1..MaxPrim}

IsRef(v) == "ref" \in DOMAIN v
IsFn(v) == "kind" \in DOMAIN v \/ "closure" \in DOMAIN v

\* a boolean the library hands back
Bool(b) == [bool |-> b]

\* typeof value
TypeOf(v) ==
    IF IsRef(v) \/ v = null THEN "object"
    ELSE IF IsFn(v) THEN "function"
    ELSE IF v = undefined THEN "undefined"
    ELSE "symbol"

\* "name" in value, for an object
In(st, name, v) == IsRef(v) /\ name \in DOMAIN st.heap[v.ref]

\* value.name: the field, or undefined when the object has no such field
Get(st, v, name) == IF In(st, name, v) THEN st.heap[v.ref][name] ELSE undefined

\* reading a property of undefined throws in the host
Readable(v) == v # undefined

\* completion records: how an evaluation ended, and the state it left
Return(st, v) == [st |-> st, type |-> "return", value |-> v]
Throw(st, x) == [st |-> st, type |-> "throw", value |-> x]

Alloc(st, obj) == [st EXCEPT !.heap = Append(@, obj)]
NewRef(st) == Ref(Len(st.heap) + 1)

-----------------------------------------------------------------------------
(* src/helpers.ts *)

\* the value as a condition
Truthy(v) == v \notin {undefined, null}

\* isPromise that looks for then only
isPromise_thenOnly(st, value) ==
    /\ Truthy(value)
    /\ TypeOf(value) = "object"
    /\ In(st, "then", value)

isPromise(st, value) ==
    /\ Truthy(value)
    /\ TypeOf(value) = "object"
    /\ In(st, "then", value)
    /\ In(st, "catch", value)

-----------------------------------------------------------------------------
(* The host's promises, as far as the library uses them *)

NoHandler == [op |-> "none", arg |-> undefined]
Handler(op, arg) == [op |-> op, arg |-> arg]

PendingPromise ==
    [then |-> TRUE, catch |-> TRUE, state |-> "pending",
     value |-> undefined, reactions |-> <<>>]

ReactionJob(reaction, state, value) ==
    [type |-> "reaction",
     handler |-> IF state = "fulfilled" THEN reaction.onFulfilled ELSE reaction.onRejected,
     rejected |-> state = "rejected",
     arg |-> value,
     child |-> reaction.child]

ThenableJob(p, thenable) ==
    [type |-> "thenable", handler |-> NoHandler, rejected |-> FALSE,
     arg |-> thenable, child |-> p]

\* settle the pending promise p and queue a job for each reaction registered on it
Settle(st, p, state, value) ==
    LET obj == st.heap[p.ref]
        queued == [i \in 1..Len(obj.reactions) |-> ReactionJob(obj.reactions[i], state, value)]
    IN  [st EXCEPT !.heap[p.ref] = [obj EXCEPT !.state = state, !.value = value, !.reactions = <<>>],
                   !.jobs = @ \o queued]

RejectPromise(st, p, reason) == Settle(st, p, "rejected", reason)

\* the resolve function of p: a thenable is adopted in a later job, anything else fulfils p
ResolvePromise(st, p, value) ==
    IF In(st, "then", value)
    THEN [st EXCEPT !.jobs = Append(@, ThenableJob(p, value))]
    ELSE Settle(st, p, "fulfilled", value)

\* register a reaction on p, or queue its job at once when p is already settled
Register(st, p, reaction) ==
    LET obj == st.heap[p.ref]
    IN  IF obj.state = "pending"
        THEN [st EXCEPT !.heap[p.ref].reactions = Append(@, reaction)]
        ELSE [st EXCEPT !.jobs = Append(@, ReactionJob(reaction, obj.state, obj.value))]

\* p.then(onFulfilled, onRejected): a new promise that settles from the handler's outcome
then(st, p, onFulfilled, onRejected) ==
    LET child == NewRef(st)
        st1 == Alloc(st, PendingPromise)
    IN  Return(Register(st1, p, [child |-> child, onFulfilled |-> onFulfilled,
                                 onRejected |-> onRejected]),
               child)

\* p.catch(onRejected)
catch(st, p, onRejected) == then(st, p, NoHandler, onRejected)

-----------------------------------------------------------------------------
(* src/result/impl.ts *)

ok(st, data) == Return(Alloc(st, [ok |-> TRUE, data |-> data]), NewRef(st))

\* err that stores its argument in the field of ok
err_asData(st, error) == Return(Alloc(st, [ok |-> FALSE, data |-> error]), NewRef(st))

err(st, error) == Return(Alloc(st, [ok |-> FALSE, error |-> error]), NewRef(st))

-----------------------------------------------------------------------------
(* Caller-supplied functions *)

\* A function the caller passes in.  It returns a fixed value ("returns"), returns its
\* argument ("echo"), throws a fixed value ("throws"), returns a new promise that the
\* caller settles later ("async"), or returns ok / err of its argument ("okOf", "errOf").
UserFn(id, kind, value) == [id |-> id, kind |-> kind, value |-> value]

\* the arrow function () => fn(arg) the library builds around a callback
Closure(f, arg) == [closure |-> f, arg |-> arg]

\* the body of a caller-supplied function
Body(st, f, arg) ==
    CASE f.kind = "returns" -> Return(st, f.value)
      [] f.kind = "echo" -> Return(st, arg)
      [] f.kind = "throws" -> Throw(st, f.value)
      [] f.kind = "async" ->
            Return([Alloc(st, PendingPromise) EXCEPT !.made = Append(@, NewRef(st))], NewRef(st))
      [] f.kind = "okOf" -> ok(st, arg)
      [] f.kind = "errOf" -> err(st, arg)

\* fn(arg) for a caller-supplied function: the invocation is logged with how it ended
CallFn(st, f, arg) ==
    LET c == Body(st, f, arg)
    IN  [c EXCEPT !.st.log = Append(@, [fn |-> f.id, arg |-> arg,
                                        type |-> c.type, value |-> c.value])]

\* fn() for the argument of try$: a closure runs its callback, a caller's function runs with no argument
Invoke(st, f) ==
    IF "closure" \in DOMAIN f THEN CallFn(st, f.closure, f.arg)
    ELSE IF "kind" \in DOMAIN f THEN CallFn(st, f, undefined)
    ELSE Throw(st, TypeError)

-----------------------------------------------------------------------------
(* src/result/impl.ts, continued *)

\* result.ok, read as a condition: an object without the field gives undefined, which is falsy
isOk(st, result) == In(st, "ok", result) /\ st.heap[result.ref].ok

\* isErr without the negation
isErr_notNegated(st, result) == In(st, "ok", result) /\ st.heap[result.ref].ok

isErr(st, result) == ~(In(st, "ok", result) /\ st.heap[result.ref].ok)

\* unwrap that reads the field of unwrapErr
unwrap_readsError(st, result) ==
    IF isPromise(st, result) THEN then(st, result, Handler("unwrap", undefined), NoHandler)
    ELSE IF ~Readable(result) THEN Throw(st, TypeError)
    ELSE Return(st, Get(st, result, "error"))

unwrap(st, result) ==
    IF isPromise(st, result) THEN then(st, result, Handler("unwrap", undefined), NoHandler)
    ELSE IF ~Readable(result) THEN Throw(st, TypeError)
    ELSE Return(st, Get(st, result, "data"))

\* unwrapErr that hands back the data of a Success
unwrapErr_either(st, result) ==
    IF isPromise(st, result) THEN then(st, result, Handler("unwrapErr", undefined), NoHandler)
    ELSE IF ~Readable(result) THEN Throw(st, TypeError)
    ELSE IF isOk(st, result) THEN Return(st, Get(st, result, "data"))
    ELSE Return(st, Get(st, result, "error"))

unwrapErr(st, result) ==
    IF isPromise(st, result) THEN then(st, result, Handler("unwrapErr", undefined), NoHandler)
    ELSE IF ~Readable(result) THEN Throw(st, TypeError)
    ELSE Return(st, Get(st, result, "error"))

\* unwrapForced that hands back the error of a Failure
unwrapForced_either(st, result) ==
    IF isPromise(st, result) THEN then(st, result, Handler("unwrapForced", undefined), NoHandler)
    ELSE IF ~Readable(result) THEN Throw(st, TypeError)
    ELSE IF isOk(st, result) THEN Return(st, Get(st, result, "data"))
    ELSE Return(st, Get(st, result, "error"))

unwrapForced(st, result) ==
    IF isPromise(st, result) THEN then(st, result, Handler("unwrapForced", undefined), NoHandler)
    ELSE IF ~Readable(result) THEN Throw(st, TypeError)
    ELSE Return(st, Get(st, result, "data"))

\* unwrapEither that reads the data whatever the variant
unwrapEither_dataOnly(st, result) ==
    IF isPromise(st, result) THEN then(st, result, Handler("unwrapEither", undefined), NoHandler)
    ELSE IF ~Readable(result) THEN Throw(st, TypeError)
    ELSE Return(st, Get(st, result, "data"))

unwrapEither(st, result) ==
    IF isPromise(st, result) THEN then(st, result, Handler("unwrapEither", undefined), NoHandler)
    ELSE IF ~Readable(result) THEN Throw(st, TypeError)
    ELSE IF isOk(st, result) THEN Return(st, Get(st, result, "data"))
    ELSE Return(st, Get(st, result, "error"))

\* unwrapOr that hands back the error of a Failure and drops the fallback
unwrapOr_either(st, result, or) ==
    IF isPromise(st, result) THEN then(st, result, Handler("unwrapOr", or), NoHandler)
    ELSE IF ~Readable(result) THEN Throw(st, TypeError)
    ELSE IF isOk(st, result) THEN Return(st, Get(st, result, "data"))
    ELSE Return(st, Get(st, result, "error"))

\* unwrapOr without its branch for a promise
unwrapOr_noPromiseBranch(st, result, or) ==
    IF ~Readable(result) THEN Throw(st, TypeError)
    ELSE IF isOk(st, result) THEN Return(st, Get(st, result, "data"))
    ELSE Return(st, or)

unwrapOr(st, result, or) ==
    IF isPromise(st, result) THEN then(st, result, Handler("unwrapOr", or), NoHandler)
    ELSE IF ~Readable(result) THEN Throw(st, TypeError)
    ELSE IF isOk(st, result) THEN Return(st, Get(st, result, "data"))
    ELSE Return(st, or)

\* tap whose deferred path was copied from tapErr
tap_deferredAsTapErr(st, result, fn) ==
    IF isPromise(st, result) THEN then(st, result, Handler("tapErr", fn), NoHandler)
    ELSE IF ~Readable(result) THEN Throw(st, TypeError)
    ELSE IF isOk(st, result)
    THEN LET c == CallFn(st, fn, Get(st, result, "data"))
         IN  IF c.type = "throw" THEN c ELSE Return(c.st, result)
    ELSE Return(st, result)

\* tap that hands back a copy of the Success it was given
tap_copies(st, result, fn) ==
    IF isPromise(st, result) THEN then(st, result, Handler("tap", fn), NoHandler)
    ELSE IF ~Readable(result) THEN Throw(st, TypeError)
    ELSE IF isOk(st, result)
    THEN LET c == CallFn(st, fn, Get(st, result, "data"))
         IN  IF c.type = "throw" THEN c ELSE ok(c.st, Get(st, result, "data"))
    ELSE Return(st, result)

\* tap that catches what its callback throws, as map does
tap_guarded(st, result, fn) ==
    IF isPromise(st, result) THEN then(st, result, Handler("tap", fn), NoHandler)
    ELSE IF ~Readable(result) THEN Throw(st, TypeError)
    ELSE IF isOk(st, result)
    THEN LET c == CallFn(st, fn, Get(st, result, "data"))
         IN  IF c.type = "throw" THEN err(c.st, c.value) ELSE Return(c.st, result)
    ELSE Return(st, result)

tap(st, result, fn) ==
    IF isPromise(st, result) THEN then(st, result, Handler("tap", fn), NoHandler)
    ELSE IF ~Readable(result) THEN Throw(st, TypeError)
    ELSE IF isOk(st, result)
    THEN LET c == CallFn(st, fn, Get(st, result, "data"))
         IN  IF c.type = "throw" THEN c ELSE Return(c.st, result)
    ELSE Return(st, result)

\* tapErr that tests the variant before it tests for a promise
tapErr_variantFirst(st, result, fn) ==
    IF ~Readable(result) THEN Throw(st, TypeError)
    ELSE IF isErr(st, result)
    THEN LET c == CallFn(st, fn, Get(st, result, "error"))
         IN  IF c.type = "throw" THEN c ELSE Return(c.st, result)
    ELSE IF isPromise(st, result) THEN then(st, result, Handler("tapErr", fn), NoHandler)
    ELSE Return(st, result)

\* tapErr with the variant test of tap
tapErr_onOk(st, result, fn) ==
    IF isPromise(st, result) THEN then(st, result, Handler("tapErr", fn), NoHandler)
    ELSE IF ~Readable(result) THEN Throw(st, TypeError)
    ELSE IF isOk(st, result)
    THEN LET c == CallFn(st, fn, Get(st, result, "error"))
         IN  IF c.type = "throw" THEN c ELSE Return(c.st, result)
    ELSE Return(st, result)

tapErr(st, result, fn) ==
    IF isPromise(st, result) THEN then(st, result, Handler("tapErr", fn), NoHandler)
    ELSE IF ~Readable(result) THEN Throw(st, TypeError)
    ELSE IF isErr(st, result)
    THEN LET c == CallFn(st, fn, Get(st, result, "error"))
         IN  IF c.type = "throw" THEN c ELSE Return(c.st, result)
    ELSE Return(st, result)

\* fn.then(ok), the catch(err) left out
tryDeferred_noCatch(st, fn) == then(st, fn, Handler("ok", undefined), NoHandler)

\* fn.then(ok).catch(err)
tryDeferred(st, fn) ==
    LET t == then(st, fn, Handler("ok", undefined), NoHandler)
    IN  catch(t.st, t.value, Handler("err", undefined))

\* try$ with the catch(err) forgotten on the deferred path
try_thenOnly(st, fn) ==
    IF isPromise(st, fn) THEN then(st, fn, Handler("ok", undefined), NoHandler)
    ELSE LET res == Invoke(st, fn)
         IN  IF res.type = "throw" THEN err(res.st, res.value)
             ELSE IF isPromise(res.st, res.value)
             THEN then(res.st, res.value, Handler("ok", undefined), NoHandler)
             ELSE ok(res.st, res.value)

\* try$ without its try/catch block
try_uncaught(st, fn) ==
    IF isPromise(st, fn) THEN tryDeferred(st, fn)
    ELSE LET res == Invoke(st, fn)
         IN  IF res.type = "throw" THEN res
             ELSE IF isPromise(res.st, res.value) THEN tryDeferred(res.st, res.value)
             ELSE ok(res.st, res.value)

\* try$ that wraps whatever the computation returned, a deferred included
try_noAwait(st, fn) ==
    IF isPromise(st, fn) THEN tryDeferred(st, fn)
    ELSE LET res == Invoke(st, fn)
         IN  IF res.type = "throw" THEN err(res.st, res.value)
             ELSE ok(res.st, res.value)

\* try$ that calls fn() once to test what it returns and once more to use it
try_invokesTwice(st, fn) ==
    IF isPromise(st, fn) THEN tryDeferred(st, fn)
    ELSE LET first == Invoke(st, fn)
         IN  IF first.type = "throw" THEN err(first.st, first.value)
             ELSE LET res == Invoke(first.st, fn)
                  IN  IF res.type = "throw" THEN err(res.st, res.value)
                      ELSE IF isPromise(res.st, res.value) THEN tryDeferred(res.st, res.value)
                      ELSE ok(res.st, res.value)

RECURSIVE try(_, _)
try(st, fn) ==
    IF isPromise(st, fn) THEN tryDeferred(st, fn)
    ELSE LET res == Invoke(st, fn)
         IN  IF res.type = "throw" THEN err(res.st, res.value)
             ELSE IF isPromise(res.st, res.value) THEN try(res.st, res.value)
             ELSE ok(res.st, res.value)

\* map that answers a promise with a promise of its own that nothing settles
map_dropsContinuation(st, result, fn) ==
    IF isPromise(st, result) THEN Return(Alloc(st, PendingPromise), NewRef(st))
    ELSE IF ~Readable(result) THEN Throw(st, TypeError)
    ELSE IF isOk(st, result) THEN try(st, Closure(fn, Get(st, result, "data")))
    ELSE Return(st, result)

\* map that stores what fn returned in the Success it was given
map_inPlace(st, result, fn) ==
    IF isPromise(st, result) THEN then(st, result, Handler("map", fn), NoHandler)
    ELSE IF ~Readable(result) THEN Throw(st, TypeError)
    ELSE IF isOk(st, result)
    THEN LET c == CallFn(st, fn, Get(st, result, "data"))
         IN  IF c.type = "throw" THEN err(c.st, c.value)
             ELSE Return([c.st EXCEPT !.heap[result.ref].data = c.value], result)
    ELSE Return(st, result)

\* map that ends its deferred path in catch(err), as try$ does
map_catches(st, result, fn) ==
    IF isPromise(st, result)
    THEN LET t == then(st, result, Handler("map", fn), NoHandler)
         IN  catch(t.st, t.value, Handler("err", undefined))
    ELSE IF ~Readable(result) THEN Throw(st, TypeError)
    ELSE IF isOk(st, result) THEN try(st, Closure(fn, Get(st, result, "data")))
    ELSE Return(st, result)

\* map that builds a new Failure from the one it was given
map_rewraps(st, result, fn) ==
    IF isPromise(st, result) THEN then(st, result, Handler("map", fn), NoHandler)
    ELSE IF ~Readable(result) THEN Throw(st, TypeError)
    ELSE IF isOk(st, result) THEN try(st, Closure(fn, Get(st, result, "data")))
    ELSE err(st, Get(st, result, "error"))

\* map with the variant test inverted
map_flipped(st, result, fn) ==
    IF isPromise(st, result) THEN then(st, result, Handler("map", fn), NoHandler)
    ELSE IF ~Readable(result) THEN Throw(st, TypeError)
    ELSE IF isErr(st, result) THEN try(st, Closure(fn, Get(st, result, "data")))
    ELSE Return(st, result)

\* map that calls fn directly instead of through try$
map_unguarded(st, result, fn) ==
    IF isPromise(st, result) THEN then(st, result, Handler("map", fn), NoHandler)
    ELSE IF ~Readable(result) THEN Throw(st, TypeError)
    ELSE IF isOk(st, result)
    THEN LET c == CallFn(st, fn, Get(st, result, "data"))
         IN  IF c.type = "throw" THEN c
             ELSE IF isPromise(c.st, c.value) THEN tryDeferred(c.st, c.value)
             ELSE ok(c.st, c.value)
    ELSE Return(st, result)

map(st, result, fn) ==
    IF isPromise(st, result) THEN then(st, result, Handler("map", fn), NoHandler)
    ELSE IF ~Readable(result) THEN Throw(st, TypeError)
    ELSE IF isOk(st, result) THEN try(st, Closure(fn, Get(st, result, "data")))
    ELSE Return(st, result)

\* mapErr that returns what try$ gave, as map does
mapErr_likeMap(st, result, fn) ==
    IF isPromise(st, result) THEN then(st, result, Handler("mapErr", fn), NoHandler)
    ELSE IF ~Readable(result) THEN Throw(st, TypeError)
    ELSE IF isErr(st, result) THEN try(st, Closure(fn, Get(st, result, "error")))
    ELSE Return(st, result)

mapErr(st, result, fn) ==
    IF isPromise(st, result) THEN then(st, result, Handler("mapErr", fn), NoHandler)
    ELSE IF ~Readable(result) THEN Throw(st, TypeError)
    ELSE IF isErr(st, result)
    THEN LET r == try(st, Closure(fn, Get(st, result, "error")))
             v == unwrapEither(r.st, r.value)
         IN  IF isPromise(v.st, v.value)
             THEN then(v.st, v.value, Handler("err", undefined), NoHandler)
             ELSE err(v.st, v.value)
    ELSE Return(st, result)

\* tryMap that wraps fn's result through try$, as map does
tryMap_wrapped(st, result, fn) ==
    IF isPromise(st, result) THEN then(st, result, Handler("tryMap", fn), NoHandler)
    ELSE IF ~Readable(result) THEN Throw(st, TypeError)
    ELSE IF isOk(st, result) THEN try(st, Closure(fn, Get(st, result, "data")))
    ELSE Return(st, result)

\* tryMap that catches what fn throws and turns it into a Failure
tryMap_guarded(st, result, fn) ==
    IF isPromise(st, result) THEN then(st, result, Handler("tryMap", fn), NoHandler)
    ELSE IF ~Readable(result) THEN Throw(st, TypeError)
    ELSE IF isOk(st, result)
    THEN LET c == CallFn(st, fn, Get(st, result, "data"))
         IN  IF c.type = "throw" THEN err(c.st, c.value) ELSE c
    ELSE Return(st, result)

tryMap(st, result, fn) ==
    IF isPromise(st, result) THEN then(st, result, Handler("tryMap", fn), NoHandler)
    ELSE IF ~Readable(result) THEN Throw(st, TypeError)
    ELSE IF isOk(st, result) THEN CallFn(st, fn, Get(st, result, "data"))
    ELSE Return(st, result)

-----------------------------------------------------------------------------
(* Running the callbacks the library registered *)

\* the arrow functions the library hands to then/catch, applied to the settled value x
RunHandler(st, h, x) ==
    CASE h.op = "unwrap" -> unwrap(st, x)
      [] h.op = "unwrapErr" -> unwrapErr(st, x)
      [] h.op = "unwrapForced" -> unwrapForced(st, x)
      [] h.op = "unwrapEither" -> unwrapEither(st, x)
      [] h.op = "unwrapOr" -> unwrapOr(st, x, h.arg)
      [] h.op = "tap" -> tap(st, x, h.arg)
      [] h.op = "tapErr" -> tapErr(st, x, h.arg)
      [] h.op = "map" -> map(st, x, h.arg)
      [] h.op = "mapErr" -> mapErr(st, x, h.arg)
      [] h.op = "tryMap" -> tryMap(st, x, h.arg)
      [] h.op = "ok" -> ok(st, x)
      [] h.op = "err" -> err(st, x)

\* one microtask
RunJobOn(st, job) ==
    IF job.type = "thenable"
    THEN \* adopt: thenable.then(resolve child, reject child)
         Register(st, job.arg, [child |-> job.child, onFulfilled |-> NoHandler,
                                onRejected |-> NoHandler])
    ELSE IF job.handler = NoHandler
    THEN IF job.rejected THEN RejectPromise(st, job.child, job.arg)
         ELSE ResolvePromise(st, job.child, job.arg)
    ELSE LET c == RunHandler(st, job.handler, job.arg)
         IN  IF c.type = "throw" THEN RejectPromise(c.st, job.child, c.value)
             ELSE ResolvePromise(c.st, job.child, c.value)

-----------------------------------------------------------------------------
(* The caller: it builds results and promises, calls the library once or    *)
(* more, settles its promises, and the host runs the queued microtasks.     *)

St == [heap |-> heap, jobs |-> jobs, log |-> log, made |-> made]

Commit(st) ==
    /\ heap' = st.heap
    /\ jobs' = st.jobs
    /\ log' = st.log
    /\ made' = st.made

IsPromiseObj(i) == "then" \in DOMAIN heap[i]
IsResultObj(i) == "ok" \in DOMAIN heap[i]

MadeRefs == {made[i] : i \in 1..Len(made)}
SrcResults == {r \in MadeRefs : IsResultObj(r.ref)}
Deferreds == {p \in MadeRefs : IsPromiseObj(p.ref)}
Untouched == \A p \in Deferreds : heap[p.ref].state = "pending"

\* what the caller may wrap, pass or have its callbacks return or throw
Payloads == Symbols \cup Deferreds
Inputs == SrcResults \cup Deferreds
FnValues == Symbols \cup {undefined} \cup MadeRefs
Fallbacks == Symbols \cup {undefined}
Fns(id) ==
    {UserFn(id, "returns", v) : v \in FnValues}
    \cup {UserFn(id, "throws", v) : v \in FnValues}
    \cup {UserFn(id, kind, undefined) : kind \in {"echo", "async", "okOf", "errOf"}}
NextId == Len(calls) + 1

Record(op, input, fn, c) ==
    /\ Commit(c.st)
    /\ calls' = Append(calls, [op |-> op, input |-> input, fn |-> fn,
                               out |-> [type |-> c.type, value |-> c.value]])

Init ==
    /\ heap = <<>>
    /\ jobs = <<>>
    /\ log = <<>>
    /\ calls = <<>>
    /\ made = <<>>

\* new Promise(...) held by the caller
NewDeferred ==
    /\ calls = <<>>
    /\ SrcResults = {}
    /\ Cardinality(Deferreds) < MaxDeferred
    /\ Commit([Alloc(St, PendingPromise) EXCEPT !.made = Append(@, NewRef(St))])
    /\ UNCHANGED calls

MakeOk(v) ==
    /\ calls = <<>>
    /\ Untouched
    /\ Cardinality(SrcResults) < MaxSrc
    /\ LET c == ok(St, v)
       IN  Commit([c.st EXCEPT !.made = Append(@, c.value)])
    /\ UNCHANGED calls

MakeErr(e) ==
    /\ calls = <<>>
    /\ Untouched
    /\ Cardinality(SrcResults) < MaxSrc
    /\ LET c == err(St, e)
       IN  Commit([c.st EXCEPT !.made = Append(@, c.value)])
    /\ UNCHANGED calls

\* the caller resolves one of its promises with a value that is not a thenable
Resolve(p, v) ==
    /\ heap[p.ref].state = "pending"
    /\ Commit(ResolvePromise(St, p, v))
    /\ UNCHANGED calls

Reject(p, x) ==
    /\ heap[p.ref].state = "pending"
    /\ Commit(RejectPromise(St, p, x))
    /\ UNCHANGED calls

\* the host runs the oldest microtask
RunJob ==
    /\ jobs # <<>>
    /\ Commit(RunJobOn([St EXCEPT !.jobs = Tail(jobs)], Head(jobs)))
    /\ UNCHANGED calls

\* isPromise of a value the caller holds, and of an object it writes for the call
IsPromise(value) ==
    Record("isPromise", value, undefined, Return(St, Bool(isPromise(St, value))))
IsPromiseOfObject(fields) ==
    LET st == Alloc(St, [f \in fields |-> TRUE])
    IN  Record("isPromise", NewRef(St), undefined, Return(st, Bool(isPromise(st, NewRef(St)))))
IsOk(result) == Record("isOk", result, undefined, Return(St, Bool(isOk(St, result))))
IsErr(result) == Record("isErr", result, undefined, Return(St, Bool(isErr(St, result))))
Unwrap(result) == Record("unwrap", result, undefined, unwrap(St, result))
UnwrapErr(result) == Record("unwrapErr", result, undefined, unwrapErr(St, result))
UnwrapForced(result) == Record("unwrapForced", result, undefined, unwrapForced(St, result))
UnwrapEither(result) == Record("unwrapEither", result, undefined, unwrapEither(St, result))
UnwrapOr(result, or) == Record("unwrapOr", result, or, unwrapOr(St, result, or))
Tap(result, fn) == Record("tap", result, fn, tap(St, result, fn))
TapErr(result, fn) == Record("tapErr", result, fn, tapErr(St, result, fn))
Map(result, fn) == Record("map", result, fn, map(St, result, fn))
MapErr(result, fn) == Record("mapErr", result, fn, mapErr(St, result, fn))
TryMap(result, fn) == Record("tryMap", result, fn, tryMap(St, result, fn))
Try(fn) == Record("try$", fn, undefined, try(St, fn))

Environment ==
    \/ NewDeferred
    \/ \E v \in Payloads : MakeOk(v)
    \/ \E e \in Payloads : MakeErr(e)
    \/ \E p \in Deferreds : \E v \in Symbols \cup SrcResults : Resolve(p, v)
    \/ \E p \in Deferreds : \E x \in Symbols : Reject(p, x)
    \/ RunJob

Next ==
    \/ Environment
    \/ calls = <<>> /\ \E v \in Symbols \cup {undefined, null} \cup MadeRefs : IsPromise(v)
    \/ calls = <<>> /\ \E fields \in SUBSET {"then", "catch"} : IsPromiseOfObject(fields)
    \/ calls = <<>> /\ \E r \in SrcResults : IsOk(r)
    \/ calls = <<>> /\ \E r \in SrcResults : IsErr(r)
    \/ calls = <<>> /\ \E r \in Inputs : Unwrap(r)
    \/ calls = <<>> /\ \E r \in Inputs : UnwrapErr(r)
    \/ calls = <<>> /\ \E r \in Inputs : UnwrapForced(r)
    \/ calls = <<>> /\ \E r \in Inputs : UnwrapEither(r)
    \/ calls = <<>> /\ \E r \in Inputs : \E or \in Fallbacks : UnwrapOr(r, or)
    \/ calls = <<>> /\ \E r \in Inputs : \E f \in Fns(NextId) : Tap(r, f)
    \/ calls = <<>> /\ \E r \in Inputs : \E f \in Fns(NextId) : TapErr(r, f)
    \/ calls = <<>> /\ \E r \in Inputs : \E f \in Fns(NextId) : Map(r, f)
    \/ calls = <<>> /\ \E r \in Inputs : \E f \in Fns(NextId) : MapErr(r, f)
    \/ calls = <<>> /\ \E r \in Inputs : \E f \in Fns(NextId) : TryMap(r, f)
    \/ calls = <<>> /\ \E f \in Deferreds \cup Fns(NextId) : Try(f)

Spec == Init /\ [][Next]_vars

\* The caller that compares the two modes: it calls a combinator on an immediate
\* result, then the same combinator, with a callback that behaves the same, on a deferred.
TwinOf(a) == IF IsFn(a) THEN [a EXCEPT !.id = NextId] ELSE a

PairCalls(op, args) ==
    IF calls = <<>> THEN SrcResults \X args
    ELSE IF Len(calls) = 1 /\ calls[1].op = op THEN Deferreds \X {TwinOf(calls[1].fn)}
    ELSE {}

NextPair ==
    \/ Environment
    \/ \E x \in PairCalls("unwrap", {undefined}) : Unwrap(x[1])
    \/ \E x \in PairCalls("unwrapErr", {undefined}) : UnwrapErr(x[1])
    \/ \E x \in PairCalls("unwrapForced", {undefined}) : UnwrapForced(x[1])
    \/ \E x \in PairCalls("unwrapEither", {undefined}) : UnwrapEither(x[1])
    \/ \E x \in PairCalls("unwrapOr", Fallbacks) : UnwrapOr(x[1], x[2])
    \/ \E x \in PairCalls("tap", Fns(NextId)) : Tap(x[1], x[2])
    \/ \E x \in PairCalls("tapErr", Fns(NextId)) : TapErr(x[1], x[2])
    \/ \E x \in PairCalls("map", Fns(NextId)) : Map(x[1], x[2])
    \/ \E x \in PairCalls("mapErr", Fns(NextId)) : MapErr(x[1], x[2])
    \/ \E x \in PairCalls("tryMap", Fns(NextId)) : TryMap(x[1], x[2])

SpecPair == Init /\ [][NextPair]_vars

\* The caller that keeps a result and hands it to one combinator after another.
NextSeq ==
    \/ Environment
    \/ Len(calls) < MaxSeq /\ \E r \in SrcResults : Unwrap(r)
    \/ Len(calls) < MaxSeq /\ \E r \in SrcResults : UnwrapErr(r)
    \/ Len(calls) < MaxSeq /\ \E r \in SrcResults : UnwrapForced(r)
    \/ Len(calls) < MaxSeq /\ \E r \in SrcResults : UnwrapEither(r)
    \/ Len(calls) < MaxSeq /\ \E r \in SrcResults : \E or \in Fallbacks : UnwrapOr(r, or)
    \/ Len(calls) < MaxSeq /\ \E r \in SrcResults : \E f \in Fns(NextId) : Tap(r, f)
    \/ Len(calls) < MaxSeq /\ \E r \in SrcResults : \E f \in Fns(NextId) : TapErr(r, f)
    \/ Len(calls) < MaxSeq /\ \E r \in SrcResults : \E f \in Fns(NextId) : Map(r, f)
    \/ Len(calls) < MaxSeq /\ \E r \in SrcResults : \E f \in Fns(NextId) : MapErr(r, f)
    \/ Len(calls) < MaxSeq /\ \E r \in SrcResults : \E f \in Fns(NextId) : TryMap(r, f)

SpecSeq == Init /\ [][NextSeq]_vars

\* The caller that chains: try$ on a deferred, map on what try$ returned, tapErr on
\* what map returned.
NextChain ==
    \/ Environment
    \/ calls = <<>> /\ \E d \in Deferreds : Try(d)
    \/ Len(calls) = 1 /\ \E f \in Fns(NextId) : Map(calls[1].out.value, f)
    \/ Len(calls) = 2 /\ \E g \in Fns(NextId) : TapErr(calls[2].out.value, g)

SpecChain == Init /\ [][NextChain]_vars

\* The caller that chains any combinators on a deferred: the first is called on the
\* caller's deferred, each further one on the deferred the one before returned.
ChainInputs ==
    IF calls = <<>> THEN Deferreds
    ELSE IF Len(calls) < MaxChain THEN {calls[Len(calls)].out.value}
    ELSE {}

\* the callbacks of the chain: one of each behaviour
ChainFns(id) ==
    {UserFn(id, "returns", v) : v \in Symbols}
    \cup {UserFn(id, "throws", v) : v \in Symbols}
    \cup {UserFn(id, kind, undefined) : kind \in {"echo", "async", "errOf"}}

NextAnyChain ==
    \/ Environment
    \/ calls = <<>> /\ \E d \in Deferreds : Try(d)
    \/ \E r \in ChainInputs : Unwrap(r)
    \/ \E r \in ChainInputs : UnwrapErr(r)
    \/ \E r \in ChainInputs : UnwrapForced(r)
    \/ \E r \in ChainInputs : UnwrapEither(r)
    \/ \E r \in ChainInputs : \E or \in Fallbacks : UnwrapOr(r, or)
    \/ \E r \in ChainInputs : \E f \in ChainFns(NextId) : Tap(r, f)
    \/ \E r \in ChainInputs : \E f \in ChainFns(NextId) : TapErr(r, f)
    \/ \E r \in ChainInputs : \E f \in ChainFns(NextId) : Map(r, f)
    \/ \E r \in ChainInputs : \E f \in ChainFns(NextId) : MapErr(r, f)
    \/ \E r \in ChainInputs : \E f \in ChainFns(NextId) : TryMap(r, f)

\* a step that takes the job at the head of the queue: the queue got shorter, or the
\* jobs the head enqueued stand where the rest of the queue moved up
HeadTaken ==
    /\ jobs # <<>>
    /\ \/ Len(jobs') < Len(jobs)
       \/ SubSeq(jobs', 1, Len(jobs)) # jobs

\* RunJob is enabled exactly when a job is queued, and its steps are the steps that
\* take the head of the queue
RunJobTakesHead == [][HeadTaken <=> RunJob]_vars

\* the host does run the microtasks that are queued: weak fairness of RunJob,
\* WF_vars(RunJob), written over the queue (the queue is empty again and again, or the
\* head of the queue is taken again and again)
HostRunsJobs == []<>(jobs = <<>>) \/ []<><<HeadTaken>>_vars

SpecAnyChainFair == Init /\ [][NextAnyChain]_vars /\ HostRunsJobs

SpecChainFair == SpecChain /\ HostRunsJobs

-----------------------------------------------------------------------------
(* Vocabulary of the properties *)

Calls == 1..Len(calls)

\* the invocations of a caller-supplied function, in order
Invocations(id) == SelectSeq(log, LAMBDA e : e.fn = id)

\* the arguments it was invoked with
ArgsOf(id) == [k \in 1..Len(Invocations(id)) |-> Invocations(id)[k].arg]

\* what its first invocation returned (or threw)
Returned(id) == Invocations(id)[1].value

IsResult(v) == IsRef(v) /\ IsResultObj(v.ref)
IsDeferred(v) == isPromise(St, v)
IsOkOf(r, v) == IsRef(r) /\ heap[r.ref] = [ok |-> TRUE, data |-> v]
IsErrOf(r, e) == IsRef(r) /\ heap[r.ref] = [ok |-> FALSE, error |-> e]
StateOf(p) == heap[p.ref].state
ValueOf(p) == heap[p.ref].value
Settled(p) == StateOf(p) # "pending"

\* how a caller-supplied function behaves on arg: it throws, returns a deferred, returns a result
Throws(f) == f.kind = "throws"
GivesDeferred(f, arg) ==
    \/ f.kind = "async"
    \/ f.kind = "returns" /\ IsDeferred(f.value)
    \/ f.kind = "echo" /\ IsDeferred(arg)
GivesResult(f, arg) ==
    \/ f.kind \in {"okOf", "errOf"}
    \/ f.kind = "returns" /\ IsResult(f.value)
    \/ f.kind = "echo" /\ IsResult(arg)

\* the input of call c is an immediate Success / Failure
OnOk(c) == IsResult(c.input) /\ heap[c.input.ref].ok
OnErr(c) == IsResult(c.input) /\ ~heap[c.input.ref].ok
\* the input of call c is a deferred that resolved to a Success / Failure
OnResolvedOk(c) ==
    /\ IsDeferred(c.input) /\ StateOf(c.input) = "fulfilled"
    /\ IsResult(ValueOf(c.input)) /\ heap[ValueOf(c.input).ref].ok
OnResolvedErr(c) ==
    /\ IsDeferred(c.input) /\ StateOf(c.input) = "fulfilled"
    /\ IsResult(ValueOf(c.input)) /\ ~heap[ValueOf(c.input).ref].ok
\* the result call c works on, and its payload
ResultOf(c) == IF IsResult(c.input) THEN c.input ELSE ValueOf(c.input)
PayloadOf(c) ==
    IF heap[ResultOf(c).ref].ok THEN heap[ResultOf(c).ref].data
    ELSE heap[ResultOf(c).ref].error

-----------------------------------------------------------------------------
(* Immediate and deferred inputs *)

\* a value as an observer compares it: a result by its variant and payload, all the way down
RECURSIVE View(_)
View(v) ==
    IF ~IsResult(v) THEN v
    ELSE IF heap[v.ref].ok THEN [ok |-> TRUE, data |-> View(heap[v.ref].data)]
    ELSE [ok |-> FALSE, error |-> View(heap[v.ref].error)]

\* how a call came out: what it threw, what it returned, or how the deferred it returned settled
Outcome(out) ==
    IF out.type = "throw" THEN [state |-> "rejected", value |-> View(out.value)]
    ELSE IF IsDeferred(out.value)
    THEN [state |-> StateOf(out.value), value |-> View(ValueOf(out.value))]
    ELSE [state |-> "fulfilled", value |-> View(out.value)]

\* the second call was made on a deferred that resolved to the result the first call was made on
PairedCalls ==
    /\ Len(calls) = 2
    /\ calls[2].op = calls[1].op
    /\ IsResult(calls[1].input)
    /\ IsDeferred(calls[2].input)
    /\ StateOf(calls[2].input) = "fulfilled"
    /\ ValueOf(calls[2].input) = calls[1].input

\* the two callbacks behaved alike: the deferreds they returned settled alike
AlikeCallbacks ==
    \A k \in 1..Len(Invocations(1)) :
        k <= Len(Invocations(2)) =>
            LET a == Invocations(1)[k]
                b == Invocations(2)[k]
            IN  (a.type = "return" /\ IsDeferred(a.value) /\ IsDeferred(b.value)) =>
                    /\ StateOf(a.value) = StateOf(b.value)
                    /\ ValueOf(a.value) = ValueOf(b.value)

-----------------------------------------------------------------------------
(* try$ *)

\* the deferred that try$ was given, or that the computation it was given returned
TryDeferredOf(c) == IF IsFn(c.input) THEN Returned(c.input.id) ELSE c.input
TryOnDeferred(c) ==
    /\ c.op = "try$"
    /\ \/ IsDeferred(c.input)
       \/ IsFn(c.input) /\ GivesDeferred(c.input, undefined)

\* C2: try$ of a deferred d, or of a computation returning a deferred d, returns a
\* deferred that never rejects and that settles to ok(v) when d resolved with v and
\* to err(x) when d rejected with x.
C2_TryDeferredSettlesToResult ==
    \A i \in Calls :
        LET c == calls[i]
            d == TryDeferredOf(c)
            out == c.out.value
        IN  TryOnDeferred(c) =>
                /\ c.out.type = "return"
                /\ IsDeferred(out)
                /\ StateOf(out) # "rejected"
                /\ IsFn(c.input) => ArgsOf(c.input.id) = <<undefined>>
                /\ Settled(out) =>
                       \/ StateOf(d) = "fulfilled" /\ IsOkOf(ValueOf(out), ValueOf(d))
                       \/ StateOf(d) = "rejected" /\ IsErrOf(ValueOf(out), ValueOf(d))

\* a computation returned a deferred that rejected, and try$'s deferred settled to the Failure
C2_Witness ==
    \E i \in Calls :
        /\ TryOnDeferred(calls[i])
        /\ IsFn(calls[i].input)
        /\ StateOf(TryDeferredOf(calls[i])) = "rejected"
        /\ Settled(calls[i].out.value)
        /\ IsErrOf(ValueOf(calls[i].out.value), ValueOf(TryDeferredOf(calls[i])))

TryOnPlain(c) ==
    /\ c.op = "try$"
    /\ IsFn(c.input)
    /\ ~GivesDeferred(c.input, undefined)

\* C3: try$ of a computation that does not return a deferred returns an immediate
\* result: err(x) if the computation throws x, ok(v) if it returns the ordinary value v.
C3_TryPlainIsImmediate ==
    \A i \in Calls :
        LET c == calls[i]
        IN  TryOnPlain(c) =>
                /\ c.out.type = "return"
                /\ ~IsDeferred(c.out.value)
                /\ ArgsOf(c.input.id) = <<undefined>>
                /\ IF Throws(c.input)
                   THEN IsErrOf(c.out.value, c.input.value)
                   ELSE IsOkOf(c.out.value, Returned(c.input.id))

\* a computation threw and try$ returned the Failure at once
C3_Witness ==
    \E i \in Calls :
        /\ TryOnPlain(calls[i])
        /\ Throws(calls[i].input)
        /\ IsErrOf(calls[i].out.value, calls[i].input.value)

-----------------------------------------------------------------------------
(* map *)

\* C4: for a non-throwing f returning a non-deferred value, map(ok(v), f) is ok(f(v))
\* with f invoked exactly once, with v; map(err(e), f) is err(e) with f never invoked.
C4_MapTransformsSuccessOnly ==
    \A i \in Calls :
        LET c == calls[i]
        IN  /\ ( /\ c.op = "map" /\ OnOk(c) /\ ~Throws(c.fn)
                 /\ ~GivesDeferred(c.fn, PayloadOf(c)) ) =>
                    /\ c.out.type = "return"
                    /\ ArgsOf(c.fn.id) = <<PayloadOf(c)>>
                    /\ IsOkOf(c.out.value, Returned(c.fn.id))
            /\ (c.op = "map" /\ OnErr(c)) =>
                    /\ c.out.type = "return"
                    /\ ArgsOf(c.fn.id) = <<>>
                    /\ IsErrOf(c.out.value, PayloadOf(c))

\* map ran f on the payload of a Success and wrapped what f made of it
C4_Witness ==
    \E i \in Calls :
        /\ calls[i].op = "map" /\ OnOk(calls[i]) /\ calls[i].fn.kind = "returns"
        /\ calls[i].fn.value # PayloadOf(calls[i])
        /\ IsOkOf(calls[i].out.value, calls[i].fn.value)
        /\ ArgsOf(calls[i].fn.id) = <<PayloadOf(calls[i])>>

\* C5: if f throws x when map invokes it on a Success, immediate or deferred-resolved,
\* the result of map is err(x): nothing is thrown to the caller and the returned
\* deferred does not reject.
C5_MapCatchesThrow ==
    \A i \in Calls :
        LET c == calls[i]
            out == c.out.value
        IN  (c.op = "map" /\ Throws(c.fn)) =>
                /\ OnOk(c) => c.out.type = "return" /\ IsErrOf(out, c.fn.value)
                /\ OnResolvedOk(c) =>
                       /\ c.out.type = "return"
                       /\ IsDeferred(out)
                       /\ StateOf(out) # "rejected"
                       /\ Settled(out) => IsErrOf(ValueOf(out), c.fn.value)

\* f threw after the deferred input resolved to a Success, and map's deferred settled to err(x)
C5_Witness ==
    \E i \in Calls :
        /\ calls[i].op = "map" /\ Throws(calls[i].fn)
        /\ OnResolvedOk(calls[i])
        /\ Settled(calls[i].out.value)
        /\ IsErrOf(ValueOf(calls[i].out.value), calls[i].fn.value)
        /\ ArgsOf(calls[i].fn.id) = <<PayloadOf(calls[i])>>

MapOnDeferredFn(c) ==
    /\ c.op = "map"
    /\ OnOk(c) \/ OnResolvedOk(c)
    /\ GivesDeferred(c.fn, PayloadOf(c))

\* C6: map on a Success with an f that returns a deferred d returns a deferred that
\* settles only after d: to ok(w) if d resolved with w, to err(x) if d rejected with x.
C6_MapAwaitsDeferredFn ==
    \A i \in Calls :
        LET c == calls[i]
            d == Returned(c.fn.id)
            out == c.out.value
        IN  MapOnDeferredFn(c) =>
                /\ c.out.type = "return"
                /\ IsDeferred(out)
                /\ OnOk(c) => ArgsOf(c.fn.id) = <<PayloadOf(c)>>
                /\ Settled(out) =>
                       /\ ArgsOf(c.fn.id) = <<PayloadOf(c)>>
                       /\ Settled(d)
                       /\ StateOf(out) = "fulfilled"
                       /\ StateOf(d) = "fulfilled" => IsOkOf(ValueOf(out), ValueOf(d))
                       /\ StateOf(d) = "rejected" => IsErrOf(ValueOf(out), ValueOf(d))

\* f returned a deferred on an immediate Success, it resolved, and map's deferred holds ok(w)
C6_Witness ==
    \E i \in Calls :
        /\ MapOnDeferredFn(calls[i]) /\ OnOk(calls[i])
        /\ StateOf(Returned(calls[i].fn.id)) = "fulfilled"
        /\ Settled(calls[i].out.value)
        /\ IsOkOf(ValueOf(calls[i].out.value), ValueOf(Returned(calls[i].fn.id)))

-----------------------------------------------------------------------------
(* mapErr *)

\* C7: for a non-throwing f returning a non-deferred value, mapErr(err(e), f) is
\* err(f(e)) with f invoked exactly once, with e; mapErr(ok(v), f) is ok(v) with f
\* never invoked.
C7_MapErrTransformsFailureOnly ==
    \A i \in Calls :
        LET c == calls[i]
        IN  /\ ( /\ c.op = "mapErr" /\ OnErr(c) /\ ~Throws(c.fn)
                 /\ ~GivesDeferred(c.fn, PayloadOf(c)) ) =>
                    /\ c.out.type = "return"
                    /\ ArgsOf(c.fn.id) = <<PayloadOf(c)>>
                    /\ IsErrOf(c.out.value, Returned(c.fn.id))
            /\ (c.op = "mapErr" /\ OnOk(c)) =>
                    /\ c.out.type = "return"
                    /\ ArgsOf(c.fn.id) = <<>>
                    /\ IsOkOf(c.out.value, PayloadOf(c))

\* mapErr ran f on the payload of a Failure and wrapped what f made of it as a Failure
C7_Witness ==
    \E i \in Calls :
        /\ calls[i].op = "mapErr" /\ OnErr(calls[i]) /\ calls[i].fn.kind = "returns"
        /\ calls[i].fn.value # PayloadOf(calls[i])
        /\ IsErrOf(calls[i].out.value, calls[i].fn.value)
        /\ ArgsOf(calls[i].fn.id) = <<PayloadOf(calls[i])>>

\* C8: for mapErr on a Failure, a mapper that throws x gives the immediate err(x), and
\* a mapper returning a deferred that rejects with x gives a deferred that settles to
\* err(x) and does not reject.
C8_MapErrFailureOfMapperIsPayload ==
    \A i \in Calls :
        LET c == calls[i]
            d == Returned(c.fn.id)
            out == c.out.value
        IN  (c.op = "mapErr" /\ OnErr(c)) =>
                /\ ArgsOf(c.fn.id) = <<PayloadOf(c)>>
                /\ Throws(c.fn) =>
                       /\ c.out.type = "return"
                       /\ IsErrOf(out, c.fn.value)
                /\ (GivesDeferred(c.fn, PayloadOf(c)) /\ StateOf(d) = "rejected") =>
                       /\ c.out.type = "return"
                       /\ IsDeferred(out)
                       /\ StateOf(out) # "rejected"
                       /\ Settled(out) => IsErrOf(ValueOf(out), ValueOf(d))

-----------------------------------------------------------------------------
(* tryMap *)

\* C9: tryMap(ok(v), f) for an f returning a Result is the very value f(v) returned,
\* Success or Failure, with nothing wrapped around it.
C9_TryMapReturnsFnResult ==
    \A i \in Calls :
        LET c == calls[i]
        IN  (c.op = "tryMap" /\ OnOk(c) /\ GivesResult(c.fn, PayloadOf(c))) =>
                /\ ArgsOf(c.fn.id) = <<PayloadOf(c)>>
                /\ c.out = [type |-> "return", value |-> Returned(c.fn.id)]

\* f returned a Failure and tryMap returned that same instance
C9_Witness ==
    \E i \in Calls :
        /\ calls[i].op = "tryMap" /\ OnOk(calls[i]) /\ calls[i].fn.kind = "errOf"
        /\ ArgsOf(calls[i].fn.id) = <<PayloadOf(calls[i])>>
        /\ IsErrOf(Returned(calls[i].fn.id), PayloadOf(calls[i]))
        /\ calls[i].out.value = Returned(calls[i].fn.id)

\* C10: if f throws x when tryMap invokes it on a Success, x reaches the caller of
\* tryMap (with a deferred input, the returned deferred rejects with x); it is never
\* turned into a Failure.
C10_TryMapPropagatesThrow ==
    \A i \in Calls :
        LET c == calls[i]
            out == c.out.value
        IN  (c.op = "tryMap" /\ Throws(c.fn)) =>
                /\ OnOk(c) => c.out = [type |-> "throw", value |-> c.fn.value]
                /\ OnResolvedOk(c) =>
                       /\ c.out.type = "return"
                       /\ IsDeferred(out)
                       /\ StateOf(out) # "fulfilled"
                       /\ Settled(out) => ValueOf(out) = c.fn.value

\* f threw on an immediate Success and the call to tryMap threw x
C10_Witness ==
    \E i \in Calls :
        /\ calls[i].op = "tryMap" /\ Throws(calls[i].fn) /\ OnOk(calls[i])
        /\ calls[i].out = [type |-> "throw", value |-> calls[i].fn.value]
        /\ ArgsOf(calls[i].fn.id) = <<PayloadOf(calls[i])>>

-----------------------------------------------------------------------------
(* tap and tapErr *)

\* the variant on which the tapping combinator op invokes its callback
Taps(c) == c.op \in {"tap", "tapErr"}
TapsOn(c) == IF c.op = "tap" THEN "ok" ELSE "err"
Matches(c) ==
    \/ TapsOn(c) = "ok" /\ (OnOk(c) \/ OnResolvedOk(c))
    \/ TapsOn(c) = "err" /\ (OnErr(c) \/ OnResolvedErr(c))
Misses(c) ==
    \/ TapsOn(c) = "err" /\ (OnOk(c) \/ OnResolvedOk(c))
    \/ TapsOn(c) = "ok" /\ (OnErr(c) \/ OnResolvedErr(c))
Immediate(c) == IsResult(c.input)

\* C11: tap invokes f exactly once, with the Success payload, on a Success (immediate
\* or deferred-resolved) and never on a Failure; tapErr invokes f exactly once, with
\* the Failure payload, on a Failure and never on a Success.  On a deferred input the
\* one invocation has happened by the time the returned deferred settles.
C11_TapInvokesOnMatchOnly ==
    \A i \in Calls :
        LET c == calls[i]
            args == ArgsOf(c.fn.id)
        IN  Taps(c) =>
                /\ Misses(c) => args = <<>>
                /\ (Matches(c) /\ Immediate(c)) => args = <<PayloadOf(c)>>
                /\ (Matches(c) /\ ~Immediate(c)) =>
                       /\ args \in {<<>>, <<PayloadOf(c)>>}
                       /\ Settled(c.out.value) => args = <<PayloadOf(c)>>

\* tapErr ran f once with the payload of the Failure a deferred resolved to
C11_Witness ==
    \E i \in Calls :
        /\ calls[i].op = "tapErr" /\ OnResolvedErr(calls[i])
        /\ Settled(calls[i].out.value)
        /\ ArgsOf(calls[i].fn.id) = <<PayloadOf(calls[i])>>
        /\ PayloadOf(calls[i]) \in Symbols

\* the results there are: those the caller built and those its callbacks returned
ResultsInHeap == {Ref(i) : i \in {j \in 1..Len(heap) : IsResultObj(j)}}
ResultsOfCaller ==
    SrcResults \cup {log[k].value : k \in {j \in 1..Len(log) : log[j].type = "return"}}

\* C12: tap and tapErr build no result.  On an immediate result r they return r
\* itself; on a deferred input the returned deferred resolves to the very instance
\* the input resolved to; this for both variants, the callback invoked or not.
C12_TapReturnsSameInstance ==
    \A i \in Calls :
        LET c == calls[i]
            out == c.out.value
        IN  Taps(c) =>
                /\ ResultsInHeap \subseteq ResultsOfCaller
                /\ (Immediate(c) /\ c.out.type = "return") => out = c.input
                /\ (Matches(c) \/ Misses(c)) /\ ~Immediate(c) =>
                       /\ c.out.type = "return"
                       /\ IsDeferred(out)
                       /\ StateOf(out) = "fulfilled" => ValueOf(out) = ValueOf(c.input)

\* tap ran its callback after the deferred resolved to a Success, and the returned
\* deferred resolved to that instance, which is as it was built
C12_Witness ==
    \E i \in Calls :
        /\ calls[i].op = "tap" /\ OnResolvedOk(calls[i])
        /\ ArgsOf(calls[i].fn.id) = <<PayloadOf(calls[i])>>
        /\ StateOf(calls[i].out.value) = "fulfilled"
        /\ ValueOf(calls[i].out.value) = ValueOf(calls[i].input)
        /\ ValueOf(calls[i].input) \in SrcResults

\* C13: if the callback throws x when tap (on a Success) or tapErr (on a Failure)
\* invokes it, x is not caught: the call on an immediate result throws x and returns
\* nothing; on a deferred input the returned deferred rejects with x.  No Failure is
\* made of x.
C13_TapPropagatesThrow ==
    \A i \in Calls :
        LET c == calls[i]
            out == c.out.value
        IN  (Taps(c) /\ Matches(c) /\ Throws(c.fn)) =>
                /\ ResultsInHeap \subseteq SrcResults
                /\ Immediate(c) => c.out = [type |-> "throw", value |-> c.fn.value]
                /\ ~Immediate(c) =>
                       /\ c.out.type = "return"
                       /\ IsDeferred(out)
                       /\ StateOf(out) # "fulfilled"
                       /\ ArgsOf(c.fn.id) # <<>> => StateOf(out) = "rejected"
                       /\ Settled(out) => ValueOf(out) = c.fn.value

\* the callback of tapErr threw after the deferred resolved to a Failure, and the
\* returned deferred rejected with what it threw
C13_Witness ==
    \E i \in Calls :
        /\ calls[i].op = "tapErr" /\ OnResolvedErr(calls[i]) /\ Throws(calls[i].fn)
        /\ ArgsOf(calls[i].fn.id) = <<PayloadOf(calls[i])>>
        /\ StateOf(calls[i].out.value) = "rejected"
        /\ ValueOf(calls[i].out.value) = calls[i].fn.value

-----------------------------------------------------------------------------
(* Deferred inputs *)

Combinators ==
    {"unwrap", "unwrapErr", "unwrapForced", "unwrapEither", "unwrapOr",
     "tap", "tapErr", "map", "mapErr", "tryMap"}

\* the entry points that take a result or a computation (isOk, isErr and isPromise
\* answer with a boolean)
EntryPoints == Combinators \cup {"try$"}

\* call c handed a deferred to a combinator
OnDeferred(c) == c.op \in Combinators /\ IsDeferred(c.input)

\* the returned deferred is a new one, it is not settled while the input is pending,
\* and the callback has not run while the input is pending
AfterInput(c) ==
    /\ c.out.type = "return"
    /\ IsDeferred(c.out.value)
    /\ c.out.value # c.input
    /\ Settled(c.out.value) => Settled(c.input)
    /\ (IsFn(c.fn) /\ ~Settled(c.input)) => ArgsOf(c.fn.id) = <<>>

\* the call itself runs no callback, and a settled output is never settled again
SettlesOnce ==
    /\ (calls' # calls /\ OnDeferred(calls'[Len(calls')])) => log' = log
    /\ \A i \in Calls :
           (OnDeferred(calls[i]) /\ Settled(calls[i].out.value)) =>
               heap'[calls[i].out.value.ref] = heap[calls[i].out.value.ref]

\* C14: a combinator given a deferred returns a deferred that settles once and only
\* after the input has settled, and the callback is not invoked before the input
\* settles: not during the call, and not while the input is pending.
C14_DeferredOutputFollowsInput ==
    /\ [](\A i \in Calls : OnDeferred(calls[i]) => AfterInput(calls[i]))
    /\ [][SettlesOnce]_vars

\* mapErr was called on a deferred that resolved to a Failure; the mapper ran on its
\* payload and the returned deferred settled
C14_Witness ==
    \E i \in Calls :
        /\ calls[i].op = "mapErr" /\ OnDeferred(calls[i]) /\ OnResolvedErr(calls[i])
        /\ ArgsOf(calls[i].fn.id) = <<PayloadOf(calls[i])>>
        /\ StateOf(calls[i].out.value) = "fulfilled"

-----------------------------------------------------------------------------
(* Immediate in, immediate out *)

\* the callback of call c returned a deferred / threw one
FnReturnedDeferred(c) ==
    \E k \in 1..Len(log) : log[k].type = "return" /\ IsDeferred(log[k].value)
FnThrewDeferred(c) ==
    \E k \in 1..Len(log) : log[k].type = "throw" /\ IsDeferred(log[k].value)

\* the input of call c is deferred: a deferred, or for try$ a computation that returns
\* one; otherwise it is immediate: a result, or a computation that returns or throws
\* at once
DeferredIn(c) == IsDeferred(c.input) \/ (c.op = "try$" /\ FnReturnedDeferred(c))
DeferredOut(c) == c.out.type = "return" /\ IsDeferred(c.out.value)

\* an unwrapping call on a result whose payload or fallback is itself a deferred
UnwrapsDeferred(c) ==
    /\ c.op \in {"unwrap", "unwrapErr", "unwrapForced", "unwrapEither", "unwrapOr"}
    /\ IsResult(c.input)
    /\ IsDeferred(PayloadOf(c)) \/ IsDeferred(c.fn)

HandsOverDeferred(c) ==
    CASE c.op \in {"tap", "tapErr", "try$"} -> FALSE
      [] c.op \in {"map", "tryMap"} -> FnReturnedDeferred(c)
      [] c.op = "mapErr" -> FnReturnedDeferred(c) \/ FnThrewDeferred(c)
      [] OTHER -> UnwrapsDeferred(c)

-----------------------------------------------------------------------------
(* Construct, then inspect or unwrap *)

\* C16: isOk is true and isErr false of every ok(v); isErr is true and isOk false of
\* every err(e); of every result the caller built exactly one of the two holds.
C16_IsOkIsErrTellVariants ==
    /\ \A i \in Calls :
           LET c == calls[i]
           IN  /\ (c.op = "isOk" /\ OnOk(c)) => c.out = [type |-> "return", value |-> Bool(TRUE)]
               /\ (c.op = "isOk" /\ OnErr(c)) => c.out = [type |-> "return", value |-> Bool(FALSE)]
               /\ (c.op = "isErr" /\ OnOk(c)) => c.out = [type |-> "return", value |-> Bool(FALSE)]
               /\ (c.op = "isErr" /\ OnErr(c)) => c.out = [type |-> "return", value |-> Bool(TRUE)]
    /\ \A r \in SrcResults : isOk(St, r) # isErr(St, r)

\* isErr was asked about an err(e) whose payload is a deferred, and said yes
C16_Witness ==
    \E i \in Calls :
        /\ calls[i].op = "isErr" /\ OnErr(calls[i])
        /\ IsDeferred(PayloadOf(calls[i]))
        /\ calls[i].out.value = Bool(TRUE)

\* the deferred out has settled as the deferred v has
Follows(out, v) ==
    /\ Settled(v)
    /\ StateOf(out) = StateOf(v)
    /\ ValueOf(out) = ValueOf(v)

\* C17 as stated: unwrap(ok(v)) is v and unwrapErr(err(e)) is e, for every value; and
\* unwrap of a deferred that resolved to ok(v) resolves to v.
C17_UnwrapRoundTrip ==
    \A i \in Calls :
        LET c == calls[i]
            out == c.out.value
        IN  /\ (c.op = "unwrap" /\ OnOk(c)) => c.out = [type |-> "return", value |-> PayloadOf(c)]
            /\ (c.op = "unwrapErr" /\ OnErr(c)) => c.out = [type |-> "return", value |-> PayloadOf(c)]
            /\ (c.op = "unwrap" /\ OnResolvedOk(c)) =>
                   /\ DeferredOut(c)
                   /\ Settled(out) => (StateOf(out) = "fulfilled" /\ ValueOf(out) = PayloadOf(c))

\* C17, amended: unwrap(ok(v)) is v and unwrapErr(err(e)) is e, for every value; unwrap
\* of a deferred that resolved to ok(v) resolves to v when v is not a deferred, and
\* settles as v settles when v is a deferred.
C17_UnwrapRoundTripFollowing ==
    \A i \in Calls :
        LET c == calls[i]
            out == c.out.value
        IN  /\ (c.op = "unwrap" /\ OnOk(c)) => c.out = [type |-> "return", value |-> PayloadOf(c)]
            /\ (c.op = "unwrapErr" /\ OnErr(c)) => c.out = [type |-> "return", value |-> PayloadOf(c)]
            /\ (c.op = "unwrap" /\ OnResolvedOk(c)) =>
                   /\ DeferredOut(c)
                   /\ Settled(out) =>
                          IF IsDeferred(PayloadOf(c)) THEN Follows(out, PayloadOf(c))
                          ELSE StateOf(out) = "fulfilled" /\ ValueOf(out) = PayloadOf(c)

\* unwrap was given a deferred that resolved to ok(v), and its deferred resolved to v
C17_Witness ==
    \E i \in Calls :
        /\ calls[i].op = "unwrap" /\ OnResolvedOk(calls[i])
        /\ PayloadOf(calls[i]) \in Symbols
        /\ StateOf(calls[i].out.value) = "fulfilled"
        /\ ValueOf(calls[i].out.value) = PayloadOf(calls[i])

-----------------------------------------------------------------------------
(* unwrapOr, unwrapForced, unwrapEither *)

\* C18: unwrapOr(ok(v), fb) is v and unwrapOr(err(e), fb) is fb: it does not throw,
\* and what it returns for a Failure is the fallback, not the payload.
C18_UnwrapOrPayloadOrFallback ==
    \A i \in Calls :
        LET c == calls[i]
        IN  c.op = "unwrapOr" =>
                /\ OnOk(c) => c.out = [type |-> "return", value |-> PayloadOf(c)]
                /\ OnErr(c) => c.out = [type |-> "return", value |-> c.fn]
                /\ (OnErr(c) /\ c.fn # PayloadOf(c)) => c.out.value # PayloadOf(c)

\* unwrapOr returned the fallback for a Failure whose payload is another value
C18_Witness ==
    \E i \in Calls :
        /\ calls[i].op = "unwrapOr" /\ OnErr(calls[i])
        /\ PayloadOf(calls[i]) \in Symbols
        /\ calls[i].fn # PayloadOf(calls[i])
        /\ calls[i].out = [type |-> "return", value |-> calls[i].fn]

\* C19: unwrapForced(ok(v)) is v and unwrapForced(err(e)) is undefined, for every
\* result built by ok / err; it does not throw.
C19_UnwrapForcedPayloadOrUndefined ==
    \A i \in Calls :
        LET c == calls[i]
        IN  c.op = "unwrapForced" =>
                /\ OnOk(c) => c.out = [type |-> "return", value |-> PayloadOf(c)]
                /\ OnErr(c) => c.out = [type |-> "return", value |-> undefined]

\* unwrapForced returned undefined for a Failure that carries a payload
C19_Witness ==
    \E i \in Calls :
        /\ calls[i].op = "unwrapForced" /\ OnErr(calls[i])
        /\ PayloadOf(calls[i]) \in Symbols
        /\ calls[i].out = [type |-> "return", value |-> undefined]

\* C20 as stated: unwrapEither(r) is the payload of r, Success or Failure; given a
\* deferred that resolved to r it returns a deferred that resolves to that payload.
C20_UnwrapEitherPayload ==
    \A i \in Calls :
        LET c == calls[i]
            out == c.out.value
        IN  c.op = "unwrapEither" =>
                /\ Immediate(c) => c.out = [type |-> "return", value |-> PayloadOf(c)]
                /\ (OnResolvedOk(c) \/ OnResolvedErr(c)) =>
                       /\ DeferredOut(c)
                       /\ Settled(out) =>
                              (StateOf(out) = "fulfilled" /\ ValueOf(out) = PayloadOf(c))

\* C20, amended: unwrapEither(r) is the payload of r, Success or Failure; given a
\* deferred that resolved to r it returns a deferred that resolves to that payload
\* when the payload is not a deferred, and that settles as the payload settles when
\* it is one.
C20_UnwrapEitherPayloadFollowing ==
    \A i \in Calls :
        LET c == calls[i]
            out == c.out.value
        IN  c.op = "unwrapEither" =>
                /\ Immediate(c) => c.out = [type |-> "return", value |-> PayloadOf(c)]
                /\ (OnResolvedOk(c) \/ OnResolvedErr(c)) =>
                       /\ DeferredOut(c)
                       /\ Settled(out) =>
                              IF IsDeferred(PayloadOf(c)) THEN Follows(out, PayloadOf(c))
                              ELSE StateOf(out) = "fulfilled" /\ ValueOf(out) = PayloadOf(c)

\* unwrapEither was given a deferred that resolved to err(e), and its deferred
\* resolved to e
C20_Witness ==
    \E i \in Calls :
        /\ calls[i].op = "unwrapEither" /\ OnResolvedErr(calls[i])
        /\ PayloadOf(calls[i]) \in Symbols
        /\ StateOf(calls[i].out.value) = "fulfilled"
        /\ ValueOf(calls[i].out.value) = PayloadOf(calls[i])

-----------------------------------------------------------------------------
(* Results are well formed and are not changed *)

WellFormed(obj) ==
    \/ DOMAIN obj = {"ok", "data"} /\ obj.ok = TRUE
    \/ DOMAIN obj = {"ok", "error"} /\ obj.ok = FALSE

\* the results the library built: not the caller's, not its callbacks'
ResultsOfLibrary == ResultsInHeap \ ResultsOfCaller

\* C21: every result there is, built by ok or err for the caller or by try$, map and
\* mapErr, returned or settled to, has the flag true, a data field and no error field,
\* or the flag false, an error field and no data field.
C21_ResultsWellFormed ==
    \A r \in ResultsInHeap : WellFormed(heap[r.ref])

\* mapErr built a Failure of its own, which the deferred it returned resolved to
C21_Witness ==
    \E i \in Calls :
        /\ calls[i].op = "mapErr" /\ DeferredOut(calls[i])
        /\ StateOf(calls[i].out.value) = "fulfilled"
        /\ ValueOf(calls[i].out.value) \in ResultsOfLibrary
        /\ heap[ValueOf(calls[i].out.value).ref].ok = FALSE
        /\ WellFormed(heap[ValueOf(calls[i].out.value).ref])

-----------------------------------------------------------------------------
(* isPromise *)

Has(v, name) == IsRef(v) /\ name \in DOMAIN heap[v.ref]

-----------------------------------------------------------------------------
(* The variant a combinator does not work on *)

\* call c is a transform on an immediate result of the variant it leaves alone
PassesThrough(c) ==
    \/ c.op \in {"map", "tryMap"} /\ OnErr(c)
    \/ c.op = "mapErr" /\ OnOk(c)

\* C24: map and tryMap on a Failure r, and mapErr on a Success r, never invoke f and
\* return r itself; no result is built.
C24_TransformPassesOtherVariant ==
    \A i \in Calls :
        LET c == calls[i]
        IN  PassesThrough(c) =>
                /\ c.out = [type |-> "return", value |-> c.input]
                /\ ArgsOf(c.fn.id) = <<>>
                /\ log = <<>>
                /\ ResultsInHeap = SrcResults

\* tryMap was given a Failure and a callback that would have built a Success, and
\* returned the Failure
C24_Witness ==
    \E i \in Calls :
        /\ calls[i].op = "tryMap" /\ OnErr(calls[i]) /\ calls[i].fn.kind = "okOf"
        /\ calls[i].out.value = calls[i].input
        /\ ArgsOf(calls[i].fn.id) = <<>>

\* C25: unwrap on a Failure and unwrapErr on a Success do not throw and do not look at
\* the variant: they return undefined, the value of the field that is not there, and
\* not the payload of the other field.
C25_UnwrapWrongVariantIsUndefined ==
    \A i \in Calls :
        LET c == calls[i]
        IN  /\ (c.op = "unwrap" /\ OnErr(c)) => c.out = [type |-> "return", value |-> undefined]
            /\ (c.op = "unwrapErr" /\ OnOk(c)) => c.out = [type |-> "return", value |-> undefined]

\* unwrapErr returned undefined for a Success that carries a payload
C25_Witness ==
    \E i \in Calls :
        /\ calls[i].op = "unwrapErr" /\ OnOk(calls[i])
        /\ PayloadOf(calls[i]) \in Symbols
        /\ calls[i].out = [type |-> "return", value |-> undefined]

\* C26: try$ of a computation has invoked it exactly once, with no argument, when it
\* returns, and the computation is not invoked again later, whether it returned a
\* deferred or not and however that deferred settles.
C26_TryInvokesOnceAtOnce ==
    \A i \in Calls :
        LET c == calls[i]
        IN  (c.op = "try$" /\ IsFn(c.input)) =>
                /\ ArgsOf(c.input.id) = <<undefined>>
                /\ Len(log) = 1

\* the computation returned a deferred, that deferred rejected and the deferred of
\* try$ settled; the computation was invoked the one time
C26_Witness ==
    \E i \in Calls :
        /\ calls[i].op = "try$" /\ IsFn(calls[i].input)
        /\ calls[i].input.kind = "async"
        /\ StateOf(Returned(calls[i].input.id)) = "rejected"
        /\ Settled(calls[i].out.value)
        /\ ArgsOf(calls[i].input.id) = <<undefined>>

-----------------------------------------------------------------------------
(* Rejections *)

\* the deferred given to call c rejected
OnRejected(c) == IsDeferred(c.input) /\ StateOf(c.input) = "rejected"

\* C28: when the deferred given to a combinator rejects with x, the callback is never
\* invoked and the returned deferred rejects with x; no Failure is made of x.  Only
\* try$ makes err(x) of the rejection of the deferred it is given.
C28_RejectionPassesCombinators ==
    \A i \in Calls :
        LET c == calls[i]
            out == c.out.value
        IN  /\ (c.op \in Combinators /\ OnRejected(c)) =>
                   /\ DeferredOut(c)
                   /\ StateOf(out) # "fulfilled"
                   /\ Settled(out) => ValueOf(out) = ValueOf(c.input)
                   /\ log = <<>>
                   /\ ResultsInHeap = SrcResults
            /\ (c.op = "try$" /\ OnRejected(c)) =>
                   /\ DeferredOut(c)
                   /\ StateOf(out) # "rejected"
                   /\ Settled(out) => IsErrOf(ValueOf(out), ValueOf(c.input))

\* the deferred given to map rejected, and the deferred map returned rejected with
\* the same value
C28_Witness ==
    \E i \in Calls :
        /\ calls[i].op = "map" /\ OnRejected(calls[i])
        /\ calls[i].out.value # calls[i].input
        /\ StateOf(calls[i].out.value) = "rejected"
        /\ ValueOf(calls[i].out.value) = ValueOf(calls[i].input)

\* C29: mapErr on a Failure, immediate or deferred-resolved, gives a Failure or a
\* deferred that settles to a Failure, whatever the mapper does (returns a value,
\* throws any value, returns a deferred that resolves or rejects): never a Success,
\* nothing thrown, and the returned deferred never rejects.
C29_MapErrGivesFailure ==
    \A i \in Calls :
        LET c == calls[i]
            out == c.out.value
        IN  (c.op = "mapErr" /\ (OnErr(c) \/ OnResolvedErr(c))) =>
                /\ c.out.type = "return"
                /\ IF IsDeferred(out)
                   THEN /\ StateOf(out) # "rejected"
                        /\ Settled(out) =>
                               IsResult(ValueOf(out)) /\ ~heap[ValueOf(out).ref].ok
                   ELSE IsResult(out) /\ ~heap[out.ref].ok

-----------------------------------------------------------------------------
(* Results are not changed *)

\* no step changes a result that is there
ResultsKept == \A i \in 1..Len(heap) : IsResultObj(i) => heap'[i] = heap[i]

\* a call that transforms the payload of r returns, or settles to, another result
NewResult(c) ==
    /\ c.out.type = "return"
    /\ c.out.value # c.input
    /\ (IsDeferred(c.out.value) /\ Settled(c.out.value)) => ValueOf(c.out.value) # c.input

\* C22: through any sequence of calls of the combinators on a result r, no step
\* changes the flag or the payload of r (or of any result); map on a Success and mapErr
\* on a Failure return a result that is not r.
C22_ResultsNotMutated ==
    /\ [][ResultsKept]_vars
    /\ [](\A i \in Calls :
             ( \/ calls[i].op = "map" /\ OnOk(calls[i])
               \/ calls[i].op = "mapErr" /\ OnErr(calls[i]) ) => NewResult(calls[i]))

\* mapErr and then tapErr were called on the same Failure (the mapper returned
\* another value); tapErr got the payload the Failure was built with
C22_Witness ==
    /\ Len(calls) = 2
    /\ calls[1].op = "mapErr" /\ OnErr(calls[1]) /\ calls[1].fn.kind = "returns"
    /\ calls[1].fn.value # PayloadOf(calls[1])
    /\ IsErrOf(calls[1].out.value, calls[1].fn.value)
    /\ calls[2].op = "tapErr" /\ calls[2].input = calls[1].input
    /\ ArgsOf(2) = <<PayloadOf(calls[1])>>

-----------------------------------------------------------------------------
(* Chains *)

\* every promise the caller holds, its own and those its callbacks returned, is settled
AllSettled == \A p \in Deferreds : Settled(p)

ChainOut == calls[3].out.value
ChainDone == Len(calls) = 3
IsFailure(r) == IsResult(r) /\ ~heap[r.ref].ok
ErrorOf(r) == heap[r.ref].error

\* what the chain has come to, at any moment
ChainEndsWell ==
    (ChainDone /\ ~Throws(calls[3].fn)) =>
        /\ DeferredOut(calls[3])
        /\ StateOf(ChainOut) # "rejected"
        /\ ~Settled(ChainOut) => Len(ArgsOf(3)) <= 1
        /\ Settled(ChainOut) =>
               /\ IsResult(ValueOf(ChainOut))
               /\ WellFormed(heap[ValueOf(ChainOut).ref])
               /\ ArgsOf(3) = IF IsFailure(ValueOf(ChainOut))
                              THEN <<ErrorOf(ValueOf(ChainOut))>> ELSE <<>>

\* C30: the chain try$ on a deferred, then map with any callback, then tapErr with
\* a callback that does not throw, ends in a deferred that never rejects and that
\* resolves to a well-formed result (once the deferreds held by the caller are all
\* settled, the chain's deferred settles); the callback of tapErr has run, once and
\* with the payload, exactly when that result is a Failure.
C30_ChainEndsInResult ==
    /\ []ChainEndsWell
    /\ []<>((ChainDone /\ ~Throws(calls[3].fn) /\ AllSettled) => Settled(ChainOut))

\* the deferred resolved, the mapper returned a deferred that rejected, and the chain
\* ended in the Failure of that rejection, which the callback of tapErr was given
C30_Witness ==
    /\ ChainDone
    /\ calls[2].fn.kind = "async" /\ ~Throws(calls[3].fn)
    /\ Len(Invocations(2)) = 1
    /\ StateOf(Returned(2)) = "rejected"
    /\ Settled(ChainOut)
    /\ IsErrOf(ValueOf(ChainOut), ValueOf(Returned(2)))
    /\ ArgsOf(3) = <<ValueOf(Returned(2))>>

\* the deferred the chain was started on, and the deferred its last call returned
Underlying == calls[1].input
LastOut == calls[Len(calls)].out.value

\* nothing of the chain has happened: no callback has run, no output is settled
Idle ==
    /\ log = <<>>
    /\ \A i \in Calls : ~Settled(calls[i].out.value)

====
